---- MODULE Spec2Model ----
(***************************************************************************)
(* Disposition routing engine of returns-hub                               *)
(* (app/services/routing.server.ts): condition evaluator, rule selector    *)
(* and the store-backed routing operations.                                *)
(*                                                                         *)
(* Strings are sequences of one-character strings.  Numbers are integers   *)
(* in units of 1/Scale, so that the decimal fractions parseFloat can read  *)
(* from a bounded string are exact.  An optional property of a JavaScript  *)
(* object is a field that is in the DOMAIN of the record or not.           *)
(***************************************************************************)
EXTENDS Integers, Sequences, FiniteSets, TLC

\* ------------------------------------------------------------------ bounds
MaxLen == 2
MaxNumLen == 3
MaxItems == 2

\* ------------------------------------------------------------- characters
Letters == {"a", "A"}
WhiteSpace == {" "}
Digits == {"1", "2"}
StrAlphabet == Letters \cup WhiteSpace
NumAlphabet == Digits \cup {".", "-", " ", "x"}

RECURSIVE Pow10(_)
Pow10(n) == IF n = 0 THEN 1 ELSE 10 * Pow10(n - 1)

Scale == Pow10(MaxNumLen)

WordsOver(alphabet, n) == UNION {[1..k -> alphabet] : k \in 0..n}

Words == WordsOver(StrAlphabet, MaxLen)
NumWords == WordsOver(NumAlphabet, MaxNumLen)

\* ---------------------------------------------------- string primitives
lowerChar(c) == IF c = "A" THEN "a" ELSE c

toLowerCase(s) == [i \in 1..Len(s) |-> lowerChar(s[i])]

trimStart(s) ==
  LET lead == {i \in 1..Len(s) : s[i] \notin WhiteSpace}
  IN  IF lead = {} THEN <<>>
      ELSE SubSeq(s, CHOOSE i \in lead : \A j \in lead : i <= j, Len(s))

trimEnd(s) ==
  LET lead == {i \in 1..Len(s) : s[i] \notin WhiteSpace}
  IN  IF lead = {} THEN <<>>
      ELSE SubSeq(s, 1, CHOOSE i \in lead : \A j \in lead : i >= j)

trim(s) == trimEnd(trimStart(s))

includes_nonEmpty(s, sub) ==
  /\ sub # <<>>
  /\ \E i \in 0..(Len(s) - Len(sub)) : SubSeq(s, i + 1, i + Len(sub)) = sub

\* String.prototype.includes
includes(s, sub) ==
  \E i \in 0..(Len(s) - Len(sub)) : SubSeq(s, i + 1, i + Len(sub)) = sub

\* ------------------------------------------------------------ parseFloat
digitValue(c) == IF c = "1" THEN 1 ELSE IF c = "2" THEN 2 ELSE 0

\* Length of the longest run of digits of s starting at position i.
digitRun(s, i) ==
  LET stops == {j \in i..Len(s) : s[j] \notin Digits}
  IN  IF stops = {} THEN Len(s) - i + 1
      ELSE (CHOOSE j \in stops : \A k \in stops : j <= k) - i

RECURSIVE digitsValue(_, _, _)
digitsValue(s, i, n) ==
  IF n = 0 THEN 0 ELSE digitsValue(s, i, n - 1) * 10 + digitValue(s[i + n - 1])

NaN == [nan |-> TRUE, value |-> 0]

\* parseFloat: leading white space is skipped, then the longest prefix that
\* is a decimal literal ([-] digits [. digits] or [-] . digits) is read and
\* the rest of the string is ignored; no such prefix gives NaN.
parseFloat(str) ==
  LET s == trimStart(str)
      neg == Len(s) >= 1 /\ s[1] = "-"
      p == IF neg THEN 2 ELSE 1
      nInt == digitRun(s, p)
      dot == p + nInt <= Len(s) /\ s[p + nInt] = "."
      nFrac == IF dot THEN digitRun(s, p + nInt + 1) ELSE 0
      mag == digitsValue(s, p, nInt) * Scale
             + (digitsValue(s, p + nInt + 1, nFrac) * Scale) \div Pow10(nFrac)
  IN  IF nInt = 0 /\ nFrac = 0 THEN NaN
      ELSE [nan |-> FALSE, value |-> IF neg THEN 0 - mag ELSE mag]

isNaN(x) == x.nan

\* --------------------------------------------------------- Array.some
some_firstOnly(outcomes) ==
  IF Len(outcomes) >= 1 /\ outcomes[1] # "undefined" THEN outcomes[1] ELSE "false"

\* Array.prototype.some visits the elements in order and stops at the first
\* one whose callback result is truthy; a callback that throws ends the call.
\* outcomes[i] is the callback's outcome on the i-th element.
some(outcomes) ==
  LET hit == {i \in 1..Len(outcomes) : outcomes[i] = "true"}
      thrown == {i \in 1..Len(outcomes) : outcomes[i] = "TypeError"}
  IN  IF \E i \in hit : \A j \in thrown : i < j THEN "true"
      ELSE IF thrown # {} THEN "TypeError"
      ELSE "false"

bool(b) == IF b THEN "true" ELSE "false"

\* x?.f : the property when present, undefined otherwise.
has(obj, f) == f \in DOMAIN obj

\* ------------------------------------------------------ condition types
ConditionType ==
  {"product_type", "product_tag", "sku_contains", "order_value_above",
   "order_value_below", "return_reason", "customer_tag", "product_vendor"}

UnknownType == "unknown_type"

\* ----------------------------------------------------- evaluateCondition
\* The outcome is "true" or "false", the value the function returns, or
\* "undefined" / "TypeError" where an expression of the code would produce
\* a non-boolean or throw.

normalize_untrimmed(conditionValue) == toLowerCase(conditionValue)

normalize_caseKept(conditionValue) == trim(conditionValue)

\* conditionValue.toLowerCase().trim()
normalize(conditionValue) == trim(toLowerCase(conditionValue))

lowerEquals_unguarded(obj, f, normalizedValue) ==
  IF has(obj, f) THEN bool(toLowerCase(obj[f]) = normalizedValue)
  ELSE "TypeError"

\* obj.f?.toLowerCase() === normalizedValue
lowerEquals(obj, f, normalizedValue) ==
  IF has(obj, f) THEN bool(toLowerCase(obj[f]) = normalizedValue)
  ELSE "false"

orderValueAbove_inclusive(conditionValue, orderValue) ==
  LET minValue == parseFloat(conditionValue)
  IN  bool(~isNaN(minValue) /\ orderValue >= minValue.value)

orderValueAbove(conditionValue, orderValue) ==
  LET minValue == parseFloat(conditionValue)
  IN  bool(~isNaN(minValue) /\ orderValue > minValue.value)

orderValueBelow(conditionValue, orderValue) ==
  LET maxValue == parseFloat(conditionValue)
  IN  bool(~isNaN(maxValue) /\ orderValue < maxValue.value)

coalesceFalse_dropped(outcome) == outcome

\* outcome ?? false
coalesceFalse(outcome) == IF outcome = "undefined" THEN "false" ELSE outcome

unknownCondition_matches == "true"

\* default: return false
unknownCondition == "false"

evaluateCondition(rule, context) ==
  LET conditionType == rule.conditionType
      conditionValue == rule.conditionValue
      normalizedValue == normalize(conditionValue)
      each(arr, P(_)) == [i \in 1..Len(arr) |-> P(arr[i])]
      typeIs(item) == lowerEquals(item, "productType", normalizedValue)
      tagIs(tag) == bool(toLowerCase(tag) = normalizedValue)
      tagsHave(item) ==
        IF has(item, "productTags") THEN some(each(item.productTags, tagIs))
        ELSE "undefined"
      vendorIs(item) == lowerEquals(item, "productVendor", normalizedValue)
      skuHas(item) ==
        IF has(item, "sku")
        THEN bool(includes(toLowerCase(item.sku), normalizedValue))
        ELSE "undefined"
  IN  CASE conditionType = "product_type" -> some(each(context.items, typeIs))
        [] conditionType = "product_tag" -> some(each(context.items, tagsHave))
        [] conditionType = "product_vendor" -> some(each(context.items, vendorIs))
        [] conditionType = "sku_contains" -> some(each(context.items, skuHas))
        [] conditionType = "order_value_above" ->
             orderValueAbove(conditionValue, context.orderValue)
        [] conditionType = "order_value_below" ->
             orderValueBelow(conditionValue, context.orderValue)
        [] conditionType = "return_reason" ->
             lowerEquals(context, "returnReason", normalizedValue)
        [] conditionType = "customer_tag" ->
             coalesceFalse(IF has(context, "customerTags")
                           THEN some(each(context.customerTags, tagIs))
                           ELSE "undefined")
        [] OTHER -> unknownCondition

\* ------------------------------------------------ findMatchingDestination
NULL == [null |-> TRUE]

compare_descending(a, b) == b.priority - a.priority

\* (a, b) => a.priority - b.priority
compare(a, b) == a.priority - b.priority

insertSorted_appended(sorted, r) == Append(sorted, r)

insertSorted_tiesReversed(sorted, r) ==
  LET k == Cardinality({i \in 1..Len(sorted) : compare(sorted[i], r) < 0})
  IN  SubSeq(sorted, 1, k) \o <<r>> \o SubSeq(sorted, k + 1, Len(sorted))

\* One step of a stable sort: r goes behind every element that does not
\* compare greater than it.
insertSorted(sorted, r) ==
  LET k == Cardinality({i \in 1..Len(sorted) : compare(sorted[i], r) <= 0})
  IN  SubSeq(sorted, 1, k) \o <<r>> \o SubSeq(sorted, k + 1, Len(sorted))

\* Array.prototype.sort with the comparator above; the sort is stable.
RECURSIVE sort(_)
sort(s) ==
  IF s = <<>> THEN <<>>
  ELSE insertSorted(sort(SubSeq(s, 1, Len(s) - 1)), s[Len(s)])

isActiveRule(r) == r.isActive

\* Arrays are objects: heap[a] is the array at address a, and an operation
\* gives the heap after it and the address of the array it returns.
\* [...arr]: a new array with the elements of arr
spread(heap, a) == [heap |-> Append(heap, heap[a]), at |-> Len(heap) + 1]

\* arr.filter((rule) => rule.isActive): a new array
filterActive(heap, a) ==
  [heap |-> Append(heap, SelectSeq(heap[a], isActiveRule)), at |-> Len(heap) + 1]

\* arr.sort(compare): sorts arr itself and returns it
sortAt(heap, a) == [heap |-> [heap EXCEPT ![a] = sort(heap[a])], at |-> a]

sortedRulesOn_argumentSorted(heap, a) ==
  LET sorted == sortAt(heap, a)
  IN  filterActive(sorted.heap, sorted.at)

\* [...rules].filter((rule) => rule.isActive).sort(...)
sortedRulesOn(heap, a) ==
  LET copy == spread(heap, a)
      active == filterActive(copy.heap, copy.at)
  IN  sortAt(active.heap, active.at)

\* the argument array after the call
argumentAfter(rules) == sortedRulesOn(<<rules>>, 1).heap[1]

sortedRules_inactiveKept(rules) == sort(rules)

\* const sortedRules = ...
sortedRules(rules) ==
  LET made == sortedRulesOn(<<rules>>, 1)
  IN  made.heap[made.at]

\* The first element of sorted whose condition is truthy, or 0.
firstMatch(sorted, context) ==
  LET hit == {i \in 1..Len(sorted) : evaluateCondition(sorted[i], context) = "true"}
  IN  IF hit = {} THEN 0 ELSE CHOOSE i \in hit : \A j \in hit : i <= j

hasDestination(r) == r.destination # NULL

findMatchingDestination_danglingSkipped(rules, context) ==
  LET sorted == SelectSeq(sortedRules(rules), hasDestination)
      i == firstMatch(sorted, context)
  IN  IF i = 0 THEN NULL ELSE sorted[i].destination

findMatchingDestination(rules, context) ==
  LET sorted == sortedRules(rules)
      i == firstMatch(sorted, context)
  IN  IF i = 0 THEN NULL ELSE sorted[i].destination

\* ---------------------------------------------------------------- state
VARIABLES
  pc,        \* position of the call under way
  rule,      \* evaluateCondition: the rule argument
  context,   \* the RoutingContext argument
  rules,     \* findMatchingDestination: the rules argument
  result,    \* what the call returned
  returnDestination,  \* table ReturnDestination
  routingRule,        \* table RoutingRule
  op,        \* the store-backed operation under way
  shop,      \* its shop argument
  loaded,    \* the rules its findMany returned
  destinations,  \* validateRoutingRules: the destinations its findMany returned
  returnRequest,    \* table ReturnRequest
  returnRequestId,  \* routeReturnRequest: the returnRequestId argument
  calls,     \* the createReturnDestination calls under way
  orderData,     \* buildRoutingContext: the orderData argument
  returnData,    \* the returnData argument
  customerData   \* the customerData argument

buildArgs == <<orderData, returnData, customerData>>

tables == <<returnDestination, routingRule, returnRequest>>

vars ==
  <<pc, rule, context, rules, result, tables, op, shop, loaded, destinations,
    buildArgs, returnRequestId, calls>>

\* the value of an argument that was not passed
undefined == [undefined |-> TRUE]

\* the context is given, not built
notBuilt ==
  /\ orderData = undefined
  /\ returnData = undefined
  /\ customerData = undefined

\* the engine is called directly: no store, no operation on it
noStore ==
  /\ returnDestination = <<>>
  /\ routingRule = <<>>
  /\ returnRequest = <<>>
  /\ returnRequestId = "none"
  /\ calls = <<>>
  /\ op = "none"
  /\ shop = "none"
  /\ loaded = <<>>
  /\ destinations = <<>>

\* conditionValue: z.string().min(1): at least one character, of any kind
RoutingRuleSchema_conditionValue(v) == Len(v) >= 1

\* ------------------------------------------------- inputs of the evaluator
FillerWord == <<"a">>

NoItem == [f \in {} |-> <<>>]

FillerItem ==
  [productType |-> FillerWord, productTags |-> <<FillerWord>>,
   productVendor |-> FillerWord, sku |-> FillerWord]

without(obj, f) == [g \in (DOMAIN obj) \ {f} |-> obj[g]]

TagLists ==
  {<<>>} \cup {<<w>> : w \in Words} \cup {<<FillerWord, w>> : w \in Words}

fieldValues(f) == IF f = "productTags" THEN TagLists ELSE Words

\* The properties a context may lack are all absent (bare) or all present.
bareOrFilled(filled) == IF filled THEN FillerItem ELSE NoItem

\* Items whose property f is absent or takes every value.
itemsVarying(f, filled) ==
  LET rest == without(bareOrFilled(filled), f)
  IN  {rest} \cup {(f :> v) @@ rest : v \in fieldValues(f)}

repeat(x, n) == [i \in 1..n |-> x]

\* Item sequences of at most MaxItems items: one item of P at any position
\* among other items, or the other items only.
itemSeqs(P, filled) ==
  {repeat(bareOrFilled(filled), n) : n \in 0..MaxItems} \cup
  {repeat(bareOrFilled(filled), n) \o <<p>> \o repeat(bareOrFilled(filled), m) :
     p \in P, n \in 0..(MaxItems - 1), m \in 0..(MaxItems - 1)}

boundedItemSeqs(P, filled) == {s \in itemSeqs(P, filled) : Len(s) <= MaxItems}

orderValuesFor(v) ==
  {0, Scale, 0 - Scale} \cup
  (IF isNaN(parseFloat(v)) THEN {}
   ELSE {parseFloat(v).value + d : d \in {-1, 0, 1}})

withOptional(obj, f, present, v) == IF present THEN (f :> v) @@ obj ELSE obj

ConditionTypeItemField ==
  [product_type |-> "productType", product_tag |-> "productTags",
   product_vendor |-> "productVendor", sku_contains |-> "sku"]

\* The contexts a rule of type t and value v is evaluated against: the part
\* of the context the type reads takes every value, the optional properties
\* it does not read are all absent or all present.
contextsFor(t, v, filled) ==
  LET its == IF t \in DOMAIN ConditionTypeItemField
             THEN boundedItemSeqs(itemsVarying(ConditionTypeItemField[t], filled), filled)
             ELSE IF filled THEN {<<FillerItem>>} ELSE {<<>>}
      ovs == IF t \in {"order_value_above", "order_value_below"}
             THEN orderValuesFor(v) ELSE {0}
      reasons ==
        IF t = "return_reason" THEN {<<>>} \cup {<<w>> : w \in Words}
        ELSE IF filled THEN {<<FillerWord>>} ELSE {<<>>}
      tags ==
        IF t = "customer_tag" THEN {<<>>} \cup {<<l>> : l \in TagLists}
        ELSE IF filled THEN {<<<<FillerWord>>>>} ELSE {<<>>}
  IN  {withOptional(
         withOptional([orderValue |-> ov, items |-> i],
                      "returnReason", rr # <<>>, IF rr # <<>> THEN rr[1] ELSE <<>>),
         "customerTags", ct # <<>>, IF ct # <<>> THEN ct[1] ELSE <<>>) :
       ov \in ovs, i \in its, rr \in reasons, ct \in tags}

valuesFor(t) ==
  IF t \in {"order_value_above", "order_value_below"} THEN NumWords ELSE Words

mkRule(id, priority, isActive, t, v, destination) ==
  [id |-> id, priority |-> priority, isActive |-> isActive,
   conditionType |-> t, conditionValue |-> v, destination |-> destination]

destinationRow(id, s, isDefault) == [id |-> id, shop |-> s, isDefault |-> isDefault]

DestA == destinationRow("dest_a", "shop_a", FALSE)
DestB == destinationRow("dest_b", "shop_a", FALSE)

\* ---------------------------------------------- specification: evaluator
InitEval ==
  /\ pc = "call"
  /\ result = "pending"
  /\ rules = <<>>
  /\ noStore
  /\ notBuilt
  /\ \E t \in ConditionType \cup {UnknownType} :
       \E v \in valuesFor(t) :
         /\ rule = mkRule("rule_1", 1, TRUE, t, v, DestA)
         /\ \E filled \in BOOLEAN : context \in contextsFor(t, v, filled)

Evaluate ==
  /\ pc = "call"
  /\ result' = evaluateCondition(rule, context)
  /\ pc' = "done"
  /\ UNCHANGED <<buildArgs, returnRequestId, calls, destinations, rule, context,
                 rules, tables, op, shop, loaded>>

NextEval == Evaluate

SpecEval == InitEval /\ [][NextEval]_vars

\* ---------------------------------------------------- buildRoutingContext
buildRoutingContext_emptyDefaults(order, return, customer) ==
  [orderValue |-> order.totalValue,
   returnReason |-> IF has(return, "reason") THEN return.reason ELSE <<>>,
   customerTags |-> IF customer # undefined /\ has(customer, "tags")
                    THEN customer.tags ELSE <<>>,
   items |-> order.lineItems]

\* { orderValue: orderData.totalValue, returnReason: returnData.reason,
\*   customerTags: customerData?.tags, items: orderData.lineItems }
\* A property that holds undefined is a property that is not set.
buildRoutingContext(order, return, customer) ==
  withOptional(
    withOptional([orderValue |-> order.totalValue, items |-> order.lineItems],
                 "returnReason", has(return, "reason"), return.reason),
    "customerTags", customer # undefined /\ has(customer, "tags"), customer.tags)

\* ------------------------------------------ specification: context builder
OrderDatas ==
  {[totalValue |-> tv, lineItems |-> li] :
     tv \in {0, Scale}, li \in boundedItemSeqs({NoItem}, TRUE)}

\* returnData: with or without a reason
ReturnDatas(reasons) == {NoItem} \cup {[reason |-> w] : w \in reasons}

\* customerData: not passed, without tags, or with tags
CustomerDatas(tagLists) == {undefined, NoItem} \cup {[tags |-> l] : l \in tagLists}

\* The part of the data a rule of type t reads takes every value.
InitBuild ==
  /\ pc = "build"
  /\ result = "pending"
  /\ rules = <<>>
  /\ noStore
  /\ context = undefined
  /\ orderData \in OrderDatas
  /\ \E t \in {"return_reason", "customer_tag"} :
       /\ \E v \in Words : rule = mkRule("rule_1", 1, TRUE, t, v, DestA)
       /\ returnData \in ReturnDatas(IF t = "return_reason" THEN Words ELSE {FillerWord})
       /\ customerData \in
            CustomerDatas(IF t = "customer_tag" THEN TagLists ELSE {<<FillerWord>>})

Build ==
  /\ pc = "build"
  /\ context' = buildRoutingContext(orderData, returnData, customerData)
  /\ pc' = "call"
  /\ UNCHANGED <<buildArgs, returnRequestId, calls, destinations, rule, rules,
                 result, tables, op, shop, loaded>>

NextBuild == Build \/ Evaluate

SpecBuild == InitBuild /\ [][NextBuild]_vars

\* ----------------------------------------------- specification: selector
MaxRules == 3

Priorities == {1, 2}

lowerA == <<"a">>

\* condition and destination of the rules handed to the selector
RuleTemplates ==
  {[conditionType |-> "product_type", conditionValue |-> <<"A", " ">>, destination |-> DestA],
   [conditionType |-> "order_value_above", conditionValue |-> <<"1">>, destination |-> DestB],
   [conditionType |-> UnknownType, conditionValue |-> lowerA, destination |-> DestB],
   [conditionType |-> "product_type", conditionValue |-> lowerA, destination |-> NULL]}

RuleShapes == Priorities \X BOOLEAN \X RuleTemplates

ruleIds == <<"rule_1", "rule_2", "rule_3", "rule_4", "rule_5">>

SelectorContexts ==
  {[orderValue |-> ov, items |-> i] :
     ov \in {Scale, 2 * Scale}, i \in {<<>>, <<[productType |-> lowerA]>>}}

NoRule == mkRule("none", 0, FALSE, UnknownType, <<>>, NULL)

InitFind ==
  /\ pc = "find"
  /\ result = "pending"
  /\ rule = NoRule
  /\ noStore
  /\ notBuilt
  /\ context \in SelectorContexts
  /\ \E k \in 0..MaxRules :
       \E shape \in [1..k -> RuleShapes] :
         rules = [i \in 1..k |->
                    mkRule(ruleIds[i], shape[i][1], shape[i][2],
                           shape[i][3].conditionType, shape[i][3].conditionValue,
                           shape[i][3].destination)]

FindMatching ==
  /\ pc = "find"
  /\ result' = findMatchingDestination(rules, context)
  /\ rules' = argumentAfter(rules)
  /\ pc' = "done"
  /\ UNCHANGED <<buildArgs, returnRequestId, calls, destinations, rule, context,
                 tables, op, shop, loaded>>

NextFind == FindMatching

SpecFind == InitFind /\ [][NextFind]_vars

\* --------------------------- specification: the selector on bags of rules
\* Three priority values, so that three active rules can differ in them.
OrderFlags ==
  <<<<3, TRUE>>, <<2, TRUE>>, <<1, TRUE>>, <<1, FALSE>>, <<2, FALSE>>, <<3, FALSE>>>>

OrderTemplates ==
  <<[conditionType |-> "product_type", conditionValue |-> <<"A", " ">>, destination |-> DestA],
    [conditionType |-> "order_value_above", conditionValue |-> <<"1">>, destination |-> DestB],
    [conditionType |-> "product_type", conditionValue |-> lowerA, destination |-> NULL]>>

OrderShapes ==
  [n \in 1..(Len(OrderTemplates) * Len(OrderFlags)) |->
     <<OrderFlags[((n - 1) % Len(OrderFlags)) + 1][1],
       OrderFlags[((n - 1) % Len(OrderFlags)) + 1][2],
       OrderTemplates[((n - 1) \div Len(OrderFlags)) + 1]>>]

\* nondecreasing index sequences: one list for each bag of shapes
bagOrders(k, n) == {f \in [1..k -> 1..n] : \A i, j \in 1..k : i < j => f[i] <= f[j]}

InitOrder ==
  /\ pc = "find"
  /\ result = "pending"
  /\ rule = NoRule
  /\ noStore
  /\ notBuilt
  /\ context \in SelectorContexts
  /\ \E k \in 0..MaxRules :
       \E f \in bagOrders(k, Len(OrderShapes)) :
         rules = [i \in 1..k |->
                    mkRule(ruleIds[i], OrderShapes[f[i]][1], OrderShapes[f[i]][2],
                           OrderShapes[f[i]][3].conditionType,
                           OrderShapes[f[i]][3].conditionValue,
                           OrderShapes[f[i]][3].destination)]

NextOrder == FindMatching

SpecOrder == InitOrder /\ [][NextOrder]_vars

\* ----------------------------------- specification: the pure functions
InitPure == InitEval \/ InitBuild \/ InitFind

NextPure == Evaluate \/ Build \/ FindMatching

SpecPure == InitPure /\ [][NextPure]_vars

\* ------------------------------------------------------------ the store
readOnly_decisionRecorded ==
  /\ UNCHANGED <<returnDestination, routingRule>>
  /\ returnRequest' =
       IF op = "routeReturnRequest" /\ pc' = "done"
       THEN [i \in 1..Len(returnRequest) |->
               IF returnRequest[i].id = returnRequestId
               THEN [returnRequest[i] EXCEPT !.status = "routed"]
               ELSE returnRequest[i]]
       ELSE returnRequest

\* The routing operations and the validator call findMany and findFirst
\* only: no row of any table is written.
readOnly == UNCHANGED <<returnDestination, routingRule, returnRequest>>

\* db.returnDestination.findFirst({ where: { shop, isDefault: true } }):
\* any one of the rows that qualify, null when there is none.
findFirstDefault_anyShop(s) ==
  LET rows == {i \in 1..Len(returnDestination) : returnDestination[i].isDefault}
  IN  IF rows = {} THEN {NULL} ELSE {returnDestination[i] : i \in rows}

findFirstDefault_flagIgnored(s) ==
  LET rows == {i \in 1..Len(returnDestination) : returnDestination[i].shop = s}
  IN  IF rows = {} THEN {NULL} ELSE {returnDestination[i] : i \in rows}

findFirstDefault(s) ==
  LET rows == {i \in 1..Len(returnDestination) :
                 returnDestination[i].shop = s /\ returnDestination[i].isDefault}
  IN  IF rows = {} THEN {NULL} ELSE {returnDestination[i] : i \in rows}

\* include: { destination: true }
destinationOf(id) ==
  LET rows == {i \in 1..Len(returnDestination) : returnDestination[i].id = id}
  IN  IF rows = {} THEN NULL ELSE returnDestination[CHOOSE i \in rows : TRUE]

withDestination(r) == ("destination" :> destinationOf(r.destinationId)) @@ r

orderedByPriority_any(S) ==
  {q \in [1..Cardinality(S) -> S] :
     \A i, j \in 1..Cardinality(S) : i # j => q[i] # q[j]}

\* orderBy: { priority: "asc" }: every order of the rows that is ascending
\* in priority; the order among equal priorities is the database's choice.
orderedByPriority(S) ==
  {q \in [1..Cardinality(S) -> S] :
     /\ \A i, j \in 1..Cardinality(S) : i # j => q[i] # q[j]
     /\ \A i, j \in 1..Cardinality(S) : i < j => q[i].priority <= q[j].priority}

\* db.routingRule.findMany({ where: { shop, isActive: true },
\*   include: { destination: true }, orderBy: { priority: "asc" } })
findManyActiveRules(s) ==
  orderedByPriority(
    {withDestination(routingRule[i]) :
       i \in {k \in 1..Len(routingRule) :
                routingRule[k].shop = s /\ routingRule[k].isActive}})

\* ------------------------------------------- getDestinationForReturn
\* if (matchedDestination) return matchedDestination; else look up the default
getDestinationForReturn_matched(matchedDestination) ==
  IF matchedDestination # NULL
  THEN result' = matchedDestination /\ pc' = "done"
  ELSE result' = result /\ pc' = "findFirst"

\* The rules arrive, the selector runs on them and a match is returned.
getDestinationForReturn_findMany ==
  /\ op = "getDestinationForReturn" /\ pc = "start"
  /\ loaded' \in findManyActiveRules(shop)
  /\ getDestinationForReturn_matched(findMatchingDestination(loaded', context))
  /\ readOnly
  /\ UNCHANGED <<buildArgs, returnRequestId, calls, destinations, rule, context,
                 rules, op, shop>>

\* No rule matched: the default destination is looked up and returned.
getDestinationForReturn_findFirst ==
  /\ op = "getDestinationForReturn" /\ pc = "findFirst"
  /\ result' \in findFirstDefault(shop)
  /\ pc' = "done"
  /\ readOnly
  /\ UNCHANGED <<buildArgs, returnRequestId, calls, destinations, rule, context,
                 rules, op, shop, loaded>>

\* ------------------------------------------------ routeReturnRequest
\* the i-th loaded rule matched first (none: i = 0)
routeReturnRequest_matched(i) ==
  IF i # 0
  THEN /\ result' = [destination |-> loaded'[i].destination, matchedRule |-> loaded'[i]]
       /\ pc' = "done"
  ELSE result' = result /\ pc' = "findFirst"

\* The rules arrive and are tried in the order of arrival.
routeReturnRequest_findMany ==
  /\ op = "routeReturnRequest" /\ pc = "start"
  /\ loaded' \in findManyActiveRules(shop)
  /\ routeReturnRequest_matched(firstMatch(loaded', context))
  /\ readOnly
  /\ UNCHANGED <<buildArgs, returnRequestId, calls, destinations, rule, context,
                 rules, op, shop>>

routeReturnRequest_findFirst ==
  /\ op = "routeReturnRequest" /\ pc = "findFirst"
  /\ \E defaultDestination \in findFirstDefault(shop) :
       result' = [destination |-> defaultDestination, matchedRule |-> NULL]
  /\ pc' = "done"
  /\ readOnly
  /\ UNCHANGED <<buildArgs, returnRequestId, calls, destinations, rule, context,
                 rules, op, shop, loaded>>

\* ------------------------------------- specification: routing on a store
MaxDbRules == 2

Shops == {"shop_a", "shop_b"}

\* the ReturnRequest table: a request of the shop and one of another shop
ReturnRequests ==
  <<[id |-> "return_1", shop |-> "shop_a", status |-> "pending"],
    [id |-> "return_2", shop |-> "shop_b", status |-> "pending"]>>

isRow(row) == row # NULL

\* A ReturnDestination table: each row absent, plain or default.
DestinationTables ==
  {SelectSeq(<<a, b, c>>, isRow) :
     a \in {NULL, destinationRow("dest_a", "shop_a", FALSE),
            destinationRow("dest_a", "shop_a", TRUE)},
     b \in {NULL, destinationRow("dest_b", "shop_a", FALSE),
            destinationRow("dest_b", "shop_a", TRUE)},
     c \in {NULL, destinationRow("dest_c", "shop_b", TRUE)}}

DbTemplates ==
  {[conditionType |-> "product_type", conditionValue |-> <<"A", " ">>,
    destinationId |-> "dest_a"],
   [conditionType |-> "order_value_above", conditionValue |-> <<"1">>,
    destinationId |-> "dest_b"]}

DbRuleShapes ==
  ({"shop_a"} \X Priorities \X BOOLEAN \X DbTemplates)
  \cup {<<"shop_b", 1, TRUE, t>> : t \in DbTemplates}

ruleNames == <<"rule a", "rule b", "rule a", "rule b", "rule a">>

ruleRow(id, name, shape) ==
  [id |-> id, name |-> name, shop |-> shape[1], priority |-> shape[2], isActive |-> shape[3],
   conditionType |-> shape[4].conditionType,
   conditionValue |-> shape[4].conditionValue,
   destinationId |-> shape[4].destinationId]

\* RoutingRule_destinationId_fkey: a rule row refers to a destination row.
foreignKeyHolds(destinationRows, ruleRows) ==
  \A i \in 1..Len(ruleRows) :
    \E j \in 1..Len(destinationRows) : destinationRows[j].id = ruleRows[i].destinationId

InitStore ==
  /\ pc = "start"
  /\ result = "pending"
  /\ rule = NoRule
  /\ rules = <<>>
  /\ loaded = <<>>
  /\ destinations = <<>>
  /\ notBuilt
  /\ calls = <<>>
  /\ returnRequest = ReturnRequests
  /\ op \in {"getDestinationForReturn", "routeReturnRequest"}
  /\ returnRequestId = (IF op = "routeReturnRequest" THEN "return_1" ELSE "none")
  /\ shop = "shop_a"
  /\ context \in SelectorContexts
  /\ returnDestination \in DestinationTables
  /\ \E k \in 0..MaxDbRules :
       \E shape \in [1..k -> DbRuleShapes] :
         routingRule = [i \in 1..k |-> ruleRow(ruleIds[i], ruleNames[i], shape[i])]
  /\ foreignKeyHolds(returnDestination, routingRule)

\* The selector is called directly, or through an operation on a store.
Init == InitFind \/ InitStore

Next ==
  \/ FindMatching
  \/ getDestinationForReturn_findMany
  \/ getDestinationForReturn_findFirst
  \/ routeReturnRequest_findMany
  \/ routeReturnRequest_findFirst

Spec == Init /\ [][Next]_vars

\* ---------------------------------------------- createReturnDestination
\* if (data.isDefault)
wantsDefault(data) == has(data, "isDefault") /\ data.isDefault

\* db.returnDestination.updateMany({ where: { shop }, data: { isDefault: false } })
updateManyNotDefault(s) ==
  [i \in 1..Len(returnDestination) |->
     IF returnDestination[i].shop = s
     THEN [returnDestination[i] EXCEPT !.isDefault = FALSE]
     ELSE returnDestination[i]]

newIds == <<"dest_1", "dest_2", "dest_3", "dest_4">>

\* db.returnDestination.create({ data: { shop, ...data } }); the column
\* isDefault defaults to false
createRow(c) ==
  destinationRow(newIds[c], calls[c].shop,
                 IF has(calls[c].data, "isDefault") THEN calls[c].data.isDefault ELSE FALSE)

\* The call c clears the defaults of its shop, and waits for the answer.
createReturnDestination_updateMany(c) ==
  /\ calls[c].pc = "start"
  /\ wantsDefault(calls[c].data)
  /\ returnDestination' = updateManyNotDefault(calls[c].shop)
  /\ calls' = [calls EXCEPT ![c].pc = "create"]
  /\ UNCHANGED <<buildArgs, returnRequestId, destinations, rule, context, rules,
                 result, routingRule, returnRequest, op, shop, loaded, pc>>

\* The call c inserts its row: after the defaults were cleared, or at once
\* when the new destination is not to be the default.
createReturnDestination_create(c) ==
  /\ \/ calls[c].pc = "create"
     \/ calls[c].pc = "start" /\ ~wantsDefault(calls[c].data)
  /\ returnDestination' = Append(returnDestination, createRow(c))
  /\ calls' = [calls EXCEPT ![c].pc = "done"]
  /\ UNCHANGED <<buildArgs, returnRequestId, destinations, rule, context, rules,
                 result, routingRule, returnRequest, op, shop, loaded, pc>>

\* ------------------------------------ specification: concurrent requests
MaxCalls == 2

\* data of a call: isDefault left out, false or true
CreateDatas == {NoItem, [isDefault |-> FALSE], [isDefault |-> TRUE]}

CreateCalls == {[shop |-> s, data |-> d, pc |-> "start"] : s \in Shops, d \in CreateDatas}

\* The tables that calls made one after the other leave behind, the shop
\* having a default destination.
DefaultTables ==
  {<<destinationRow("dest_a", "shop_a", TRUE)>>,
   <<destinationRow("dest_a", "shop_a", TRUE), destinationRow("dest_b", "shop_a", FALSE)>>,
   <<destinationRow("dest_a", "shop_a", FALSE), destinationRow("dest_b", "shop_a", TRUE)>>,
   <<destinationRow("dest_a", "shop_a", TRUE), destinationRow("dest_c", "shop_b", TRUE)>>}

\* getDestinationForReturn starts on a shop that has a default destination
\* while requests that create destinations are being served.
InitConcurrent ==
  /\ pc = "start"
  /\ result = "pending"
  /\ rule = NoRule
  /\ rules = <<>>
  /\ loaded = <<>>
  /\ destinations = <<>>
  /\ notBuilt
  /\ returnRequest = ReturnRequests
  /\ returnRequestId = "none"
  /\ op = "getDestinationForReturn"
  /\ shop = "shop_a"
  /\ context \in SelectorContexts
  /\ returnDestination \in DefaultTables
  /\ \E k \in 0..1 :
       \E shape \in [1..k -> DbRuleShapes] :
         routingRule = [i \in 1..k |-> ruleRow(ruleIds[i], ruleNames[i], shape[i])]
  /\ foreignKeyHolds(returnDestination, routingRule)
  /\ \E n \in 1..MaxCalls : calls \in [1..n -> CreateCalls]

NextConcurrent ==
  \/ getDestinationForReturn_findMany
  \/ getDestinationForReturn_findFirst
  \/ \E c \in 1..Len(calls) : createReturnDestination_updateMany(c)
  \/ \E c \in 1..Len(calls) : createReturnDestination_create(c)

SpecConcurrent == InitConcurrent /\ [][NextConcurrent]_vars

\* ------------------------------------------------ validateRoutingRules
\* the rows of S in any order: the query has no orderBy
inAnyOrder(S) ==
  {q \in [1..Cardinality(S) -> S] :
     \A i, j \in 1..Cardinality(S) : i # j => q[i] # q[j]}

\* db.routingRule.findMany({ where: { shop }, include: { destination: true } })
findManyRules(s) ==
  inAnyOrder({withDestination(routingRule[i]) :
                i \in {k \in 1..Len(routingRule) : routingRule[k].shop = s}})

findManyDestinations_anyShop(s) ==
  inAnyOrder({returnDestination[i] : i \in 1..Len(returnDestination)})

\* db.returnDestination.findMany({ where: { shop } })
findManyDestinations(s) ==
  inAnyOrder({returnDestination[i] :
                i \in {k \in 1..Len(returnDestination) : returnDestination[k].shop = s}})

\* The issue strings: the text of the template literal and the values put
\* into it.
NoDestinationsIssue == [message |-> "No return destinations configured"]

NoDefaultIssue ==
  [message |-> "No default destination set - returns without matching rules will have no destination"]

deletedDestinationIssue(r) ==
  [message |-> "Rule \"${rule.name}\" references a deleted destination",
   name |-> r.name]

invalidNumericIssue(r) ==
  [message |-> "Rule \"${rule.name}\" has invalid numeric value: ${rule.conditionValue}",
   name |-> r.name, conditionValue |-> r.conditionValue]

duplicatePriorityIssue(priority) ==
  [message |-> "Multiple active rules have the same priority (${priority}) - order may be unpredictable",
   priority |-> priority]

hasDefault_anyDestination(ds) == Len(ds) > 0

\* destinations.some((d) => d.isDefault)
hasDefault(ds) == \E i \in 1..Len(ds) : ds[i].isDefault

missesDefault_emptyIncluded(ds) == ~hasDefault(ds)

\* !hasDefault && destinations.length > 0
missesDefault(ds) == ~hasDefault(ds) /\ Len(ds) > 0

destinationIssues(ds) ==
  (IF Len(ds) = 0 THEN <<NoDestinationsIssue>> ELSE <<>>)
  \o (IF missesDefault(ds) THEN <<NoDefaultIssue>> ELSE <<>>)

referencesDeletedDestination_activeOnly(r) == r.isActive /\ r.destination = NULL

\* !rule.destination
referencesDeletedDestination(r) == r.destination = NULL

isThresholdType_any(conditionType) == TRUE

\* conditionType === "order_value_above" || conditionType === "order_value_below"
isThresholdType(conditionType) ==
  conditionType = "order_value_above" \/ conditionType = "order_value_below"

\* The whole string, white space at its ends apart, has to be a number.
hasInvalidNumericValue_wholeString(r) ==
  /\ isThresholdType(r.conditionType)
  /\ \/ isNaN(parseFloat(r.conditionValue))
     \/ \E i \in 1..Len(r.conditionValue) :
          r.conditionValue[i] \notin Digits \cup WhiteSpace \cup {".", "-"}

hasInvalidNumericValue(r) ==
  isThresholdType(r.conditionType) /\ isNaN(parseFloat(r.conditionValue))

\* the body of for (const rule of rules)
ruleIssues(r) ==
  (IF referencesDeletedDestination(r) THEN <<deletedDestinationIssue(r)>> ELSE <<>>)
  \o (IF hasInvalidNumericValue(r) THEN <<invalidNumericIssue(r)>> ELSE <<>>)

RECURSIVE rulesIssues(_)
rulesIssues(rs) ==
  IF rs = <<>> THEN <<>> ELSE ruleIssues(Head(rs)) \o rulesIssues(Tail(rs))

activeRules_all(rs) == rs

\* rules.filter((r) => r.isActive)
activeRules(rs) == SelectSeq(rs, isActiveRule)

\* The Map priority -> count after the rules of rs were counted; a Map
\* keeps its keys in the order of their insertion.
RECURSIVE priorityCounts(_)
priorityCounts(rs) ==
  IF rs = <<>> THEN <<>>
  ELSE LET counts == priorityCounts(SubSeq(rs, 1, Len(rs) - 1))
           priority == rs[Len(rs)].priority
           at == {k \in 1..Len(counts) : counts[k].priority = priority}
       IN  IF at = {} THEN Append(counts, [priority |-> priority, count |-> 0 + 1])
           ELSE [counts EXCEPT ![CHOOSE k \in at : TRUE].count = @ + 1]

RECURSIVE duplicatePriorityIssues(_)
duplicatePriorityIssues(counts) ==
  IF counts = <<>> THEN <<>>
  ELSE (IF Head(counts).count > 1
        THEN <<duplicatePriorityIssue(Head(counts).priority)>> ELSE <<>>)
       \o duplicatePriorityIssues(Tail(counts))

isValid_always(issues) == TRUE

\* issues.length === 0
isValid(issues) == Len(issues) = 0

report(issues) == [valid |-> isValid(issues), issues |-> issues]

\* what validateRoutingRules returns for these answers of the two queries
validation(rs, ds) ==
  report(destinationIssues(ds)
         \o rulesIssues(rs)
         \o duplicatePriorityIssues(priorityCounts(activeRules(rs))))

validateRoutingRules_findManyRules ==
  /\ op = "validateRoutingRules" /\ pc = "start"
  /\ loaded' \in findManyRules(shop)
  /\ pc' = "findManyDestinations"
  /\ readOnly
  /\ UNCHANGED <<buildArgs, returnRequestId, calls, destinations, rule, context,
                 rules, result, op, shop>>

\* The destinations arrive and the checks run on both answers.
validateRoutingRules_findManyDestinations ==
  /\ op = "validateRoutingRules" /\ pc = "findManyDestinations"
  /\ destinations' \in findManyDestinations(shop)
  /\ result' = validation(loaded, destinations')
  /\ pc' = "done"
  /\ readOnly
  /\ UNCHANGED <<buildArgs, returnRequestId, calls, rule, context, rules, op,
                 shop, loaded>>

\* ------------------------------------------- specification: the validator
MaxValRules == 3

\* A rule can refer to a destination that is not in the table: the validator
\* is written for a store in which a rule outlives its destination, which
\* RoutingRule_destinationId_fkey rules out in the migrated database.
ValidatorTemplates ==
  <<[conditionType |-> "order_value_above", conditionValue |-> <<"1", "x">>,
     destinationId |-> "dest_a"],
    [conditionType |-> "order_value_below", conditionValue |-> <<"x">>,
     destinationId |-> "dest_a"],
    [conditionType |-> "order_value_below", conditionValue |-> <<"x">>,
     destinationId |-> "dest_x"],
    [conditionType |-> "product_type", conditionValue |-> <<"x">>,
     destinationId |-> "dest_x"]>>

\* priority and isActive of the rules of the shop
ValidatorFlags == <<<<1, TRUE>>, <<2, TRUE>>, <<1, FALSE>>>>

ValidatorShapes ==
  [n \in 1..(Len(ValidatorFlags) * Len(ValidatorTemplates)) |->
     <<"shop_a", ValidatorFlags[((n - 1) \div Len(ValidatorTemplates)) + 1][1],
       ValidatorFlags[((n - 1) \div Len(ValidatorTemplates)) + 1][2],
       ValidatorTemplates[((n - 1) % Len(ValidatorTemplates)) + 1]>>]

\* The rows of a table are a bag: one row order for each bag of shapes.
ascending(k, n) == {f \in [1..k -> 1..n] : \A i, j \in 1..k : i < j => f[i] <= f[j]}

\* the destinations of the shop: none, one, two, with or without a default
ShopDestinationTables ==
  {<<>>,
   <<destinationRow("dest_a", "shop_a", FALSE)>>,
   <<destinationRow("dest_a", "shop_a", TRUE)>>,
   <<destinationRow("dest_a", "shop_a", FALSE), destinationRow("dest_b", "shop_a", FALSE)>>,
   <<destinationRow("dest_a", "shop_a", FALSE), destinationRow("dest_b", "shop_a", TRUE)>>}

\* another shop: a default destination and a rule with a bad threshold
OtherShopDestinations == <<destinationRow("dest_c", "shop_b", TRUE)>>

OtherShopRules ==
  <<ruleRow("rule_9", "rule a",
            <<"shop_b", 1, TRUE,
              [conditionType |-> "order_value_above", conditionValue |-> <<"x">>,
               destinationId |-> "dest_x"]>>)>>

InitValidate ==
  /\ pc = "start"
  /\ result = "pending"
  /\ rule = NoRule
  /\ rules = <<>>
  /\ loaded = <<>>
  /\ destinations = <<>>
  /\ notBuilt
  /\ context = undefined
  /\ calls = <<>>
  /\ returnRequest = ReturnRequests
  /\ returnRequestId = "none"
  /\ op = "validateRoutingRules"
  /\ shop = "shop_a"
  /\ \E other \in BOOLEAN :
       /\ \E t \in ShopDestinationTables :
            returnDestination = t \o (IF other THEN OtherShopDestinations ELSE <<>>)
       /\ \E k \in 0..MaxValRules :
            \E f \in ascending(k, Len(ValidatorShapes)) :
              routingRule =
                [i \in 1..k |-> ruleRow(ruleIds[i], ruleNames[i], ValidatorShapes[f[i]])]
                \o (IF other THEN OtherShopRules ELSE <<>>)

NextValidate ==
  \/ validateRoutingRules_findManyRules
  \/ validateRoutingRules_findManyDestinations

SpecValidate == InitValidate /\ [][NextValidate]_vars

\* ------------------------- specification: the operations that read a store
InitRead == InitStore \/ InitValidate

NextRead ==
  \/ getDestinationForReturn_findMany
  \/ getDestinationForReturn_findFirst
  \/ routeReturnRequest_findMany
  \/ routeReturnRequest_findFirst
  \/ validateRoutingRules_findManyRules
  \/ validateRoutingRules_findManyDestinations

SpecRead == InitRead /\ [][NextRead]_vars

\* ------------------------------------------------- claims: the evaluator
StringTypes ==
  {"product_type", "product_tag", "product_vendor", "sku_contains",
   "return_reason", "customer_tag"}

\* C7: evaluateCondition returns true or false and never throws, whatever
\* the condition type and value and whichever optional properties of the
\* context and of its items are present, the empty items sequence included.
C7_EvaluateTotal == pc = "done" => result \in {"true", "false"}

\* An item without any property and a context without returnReason and
\* customerTags have been evaluated.
C7_Witness ==
  /\ pc = "done"
  /\ rule.conditionType = "product_vendor"
  /\ Len(context.items) = 2
  /\ DOMAIN context.items[1] = {}
  /\ has(context.items[2], "productVendor")
  /\ ~has(context, "returnReason")
  /\ ~has(context, "customerTags")
  /\ result = "false"

\* A decimal literal starts the string, after optional white space and an
\* optional minus sign.
parses(conditionValue) ==
  LET s == trimStart(conditionValue)
      k == IF Len(s) >= 1 /\ s[1] = "-" THEN 1 ELSE 0
  IN  /\ Len(s) > k
      /\ \/ s[k + 1] \in Digits
         \/ s[k + 1] = "." /\ Len(s) > k + 1 /\ s[k + 2] \in Digits

retyped(r, t) == [r EXCEPT !.conditionType = t]

\* C9: order_value_above is true exactly when the value parses and
\* orderValue is strictly greater, order_value_below exactly when it parses
\* and orderValue is strictly less; at the threshold neither matches, the
\* two never match together, and an unparsable value gives false.
C9_StrictThresholds ==
  (pc = "done" /\ rule.conditionType \in {"order_value_above", "order_value_below"}) =>
    LET v == rule.conditionValue
        ov == context.orderValue
        threshold == parseFloat(v).value
        other == IF rule.conditionType = "order_value_above"
                 THEN "order_value_below" ELSE "order_value_above"
    IN  /\ rule.conditionType = "order_value_above" =>
             (result = "true" <=> (parses(v) /\ ov > threshold))
        /\ rule.conditionType = "order_value_below" =>
             (result = "true" <=> (parses(v) /\ ov < threshold))
        /\ result \in {"true", "false"}
        /\ (parses(v) /\ ov = threshold) => result = "false"
        /\ result = "true" => evaluateCondition(retyped(rule, other), context) = "false"
        /\ ~parses(v) => result = "false"

\* An order value equal to a parsed threshold has been evaluated.
C9_Witness ==
  /\ pc = "done"
  /\ rule.conditionType = "order_value_above"
  /\ parses(rule.conditionValue)
  /\ context.orderValue = parseFloat(rule.conditionValue).value
  /\ context.orderValue # 0
  /\ result = "false"

swapCase(c) == IF c = "a" THEN "A" ELSE IF c = "A" THEN "a" ELSE c

\* The string s with the letter case changed at the positions of S.
recased(s, S) == [i \in 1..Len(s) |-> IF i \in S THEN swapCase(s[i]) ELSE s[i]]

recasedEach(l, S) == [i \in 1..Len(l) |-> recased(l[i], S)]

recasedObject(obj, S) ==
  [f \in DOMAIN obj |->
     IF f \in {"productType", "productVendor", "sku", "returnReason"}
     THEN recased(obj[f], S)
     ELSE IF f \in {"productTags", "customerTags"} THEN recasedEach(obj[f], S)
     ELSE IF f = "items"
     THEN [i \in 1..Len(obj[f]) |->
             [g \in DOMAIN obj[f][i] |->
                IF g = "productTags" THEN recasedEach(obj[f][i][g], S)
                ELSE recased(obj[f][i][g], S)]]
     ELSE obj[f]]

\* Case changes: none, one position, or every position.
Positions == {{}, 1..MaxLen} \cup {{i} : i \in 1..MaxLen}

\* C10: for the six string condition types the result does not depend on
\* the letter case of the rule's conditionValue nor on that of the compared
\* context strings.
C10_CaseInsensitive ==
  (pc = "done" /\ rule.conditionType \in StringTypes) =>
    /\ \A S \in Positions :
         /\ evaluateCondition([rule EXCEPT !.conditionValue = recased(@, S)],
                              context) = result
         /\ evaluateCondition(rule, recasedObject(context, S)) = result
    /\ evaluateCondition([rule EXCEPT !.conditionValue = recased(@, 1..MaxLen)],
                         recasedObject(context, 1..MaxLen)) = result

\* A value in upper case has matched a context string in lower case.
C10_Witness ==
  /\ pc = "done"
  /\ rule.conditionType = "sku_contains"
  /\ rule.conditionValue = <<"A">>
  /\ \E i \in 1..Len(context.items) :
       has(context.items[i], "sku") /\ context.items[i].sku = <<" ", "a">>
  /\ result = "true"

itemMatches(t, item, normalizedValue) ==
  CASE t = "product_type" ->
         has(item, "productType") /\ toLowerCase(item.productType) = normalizedValue
    [] t = "product_vendor" ->
         has(item, "productVendor") /\ toLowerCase(item.productVendor) = normalizedValue
    [] t = "product_tag" ->
         /\ has(item, "productTags")
         /\ \E k \in 1..Len(item.productTags) :
              toLowerCase(item.productTags[k]) = normalizedValue
    [] t = "sku_contains" ->
         /\ has(item, "sku")
         /\ \E a, b \in 0..Len(item.sku) :
              a <= b /\ SubSeq(toLowerCase(item.sku), a + 1, b) = normalizedValue

ItemTypes == {"product_type", "product_tag", "product_vendor", "sku_contains"}

\* C11: the item conditions are existential over context.items: the result
\* is true exactly when at least one item, at any position and whatever the
\* other items are, has a lower-cased productType / productVendor equal to
\* normalizedValue, a lower-cased tag equal to it, or a lower-cased sku that
\* contains it; the result is false when items is empty.
C11_SomeItemMatches ==
  (pc = "done" /\ rule.conditionType \in ItemTypes) =>
    LET normalizedValue == trim(toLowerCase(rule.conditionValue))
    IN  /\ result = "true" <=>
              \E i \in 1..Len(context.items) :
                itemMatches(rule.conditionType, context.items[i], normalizedValue)
        /\ result \in {"true", "false"}
        /\ context.items = <<>> => result = "false"

\* The second tag of the last item matched behind an item that does not.
C11_Witness ==
  /\ pc = "done"
  /\ rule.conditionType = "product_tag"
  /\ Len(context.items) = 2
  /\ has(context.items[1], "productTags")
  /\ ~itemMatches("product_tag", context.items[1], trim(toLowerCase(rule.conditionValue)))
  /\ has(context.items[2], "productTags")
  /\ Len(context.items[2].productTags) = 2
  /\ toLowerCase(context.items[2].productTags[2]) = trim(toLowerCase(rule.conditionValue))
  /\ result = "true"

EqualityTypes == StringTypes \ {"sku_contains"}

\* The value v with a space added in front, behind, or both.
padded(v) == {v, <<" ">> \o v, v \o <<" ">>, <<" ">> \o v \o <<" ">>}

surrounded(x) == trim(x) # x

\* the strings of the context a rule of type t is compared with
comparedStrings(t, c) ==
  CASE t = "product_type" ->
         {c.items[i].productType :
            i \in {k \in 1..Len(c.items) : has(c.items[k], "productType")}}
    [] t = "product_vendor" ->
         {c.items[i].productVendor :
            i \in {k \in 1..Len(c.items) : has(c.items[k], "productVendor")}}
    [] t = "product_tag" ->
         UNION {{c.items[i].productTags[k] : k \in 1..Len(c.items[i].productTags)} :
                  i \in {k \in 1..Len(c.items) : has(c.items[k], "productTags")}}
    [] t = "return_reason" ->
         IF has(c, "returnReason") THEN {c.returnReason} ELSE {}
    [] t = "customer_tag" ->
         IF has(c, "customerTags")
         THEN {c.customerTags[k] : k \in 1..Len(c.customerTags)} ELSE {}

\* C29: whitespace is normalized on one side only: for the six string
\* condition types a conditionValue with spaces around it gives the result
\* its trimmed form gives, whereas a context string with a leading or
\* trailing space is compared as it is: under the equality-based types a
\* context all of whose compared strings carry such whitespace never matches.
C29_OneSidedTrim ==
  (pc = "done" /\ rule.conditionType \in StringTypes) =>
    /\ evaluateCondition([rule EXCEPT !.conditionValue = trim(@)], context) = result
    /\ \A v \in padded(rule.conditionValue) :
         evaluateCondition([rule EXCEPT !.conditionValue = v], context) = result
    /\ (/\ rule.conditionType \in EqualityTypes
        /\ \A x \in comparedStrings(rule.conditionType, context) : surrounded(x))
       => result = "false"

\* The value " a" matched the productType "a" of the first item as "a"
\* does, and the second item, whose productType is " a" itself, does not
\* match on its own.
C29_Witness ==
  /\ pc = "done"
  /\ rule.conditionType = "product_type"
  /\ rule.conditionValue = <<" ", "a">>
  /\ Len(context.items) = 2
  /\ has(context.items[1], "productType") /\ context.items[1].productType = <<"a">>
  /\ has(context.items[2], "productType")
  /\ context.items[2].productType = <<" ", "a">>
  /\ result = "true"
  /\ evaluateCondition(rule, [context EXCEPT !.items = <<context.items[2]>>]) = "false"

\* Rules of priority value 2 that may match as well, with another destination.
Rivals ==
  {mkRule("rule_2", 2, TRUE, tv[1], tv[2], DestB) :
     tv \in {<<"sku_contains", <<>>>>, <<"sku_contains", <<"a">>>>,
              <<"product_type", <<"a">>>>, <<"order_value_above", <<"-", "1">>>>,
              <<"order_value_below", <<"1">>>>}}

someSku(c) == \E i \in 1..Len(c.items) : has(c.items[i], "sku")

\* C30: a sku_contains rule whose conditionValue is empty or made of
\* whitespace matches exactly the contexts with at least one item that has
\* a sku, and when active it is selected in those contexts ahead of any
\* rule of a higher priority value, wherever it stands in the list.
C30_BlankSkuMatchesAnySku ==
  (/\ pc = "done"
   /\ rule.conditionType = "sku_contains"
   /\ \A i \in 1..Len(rule.conditionValue) : rule.conditionValue[i] \in WhiteSpace) =>
    /\ result = "true" <=> someSku(context)
    /\ someSku(context) =>
         \A o \in Rivals :
           /\ findMatchingDestination(<<o, rule>>, context) = rule.destination
           /\ findMatchingDestination(<<rule, o>>, context) = rule.destination

\* A value of one space, which the schema accepts, matched a context whose
\* only sku is the empty string, ahead of a rival that matches too.
C30_Witness ==
  /\ pc = "done"
  /\ rule.conditionType = "sku_contains"
  /\ rule.conditionValue = <<" ">>
  /\ RoutingRuleSchema_conditionValue(rule.conditionValue)
  /\ Len(context.items) = 2
  /\ ~has(context.items[1], "sku")
  /\ has(context.items[2], "sku") /\ context.items[2].sku = <<>>
  /\ result = "true"
  /\ \E o \in Rivals :
       /\ evaluateCondition(o, context) = "true"
       /\ findMatchingDestination(<<o, rule>>, context) = rule.destination

\* ------------------------------------------- claims: the context builder
built == pc \in {"call", "done"} /\ orderData # undefined

\* C12: a customer_tag rule is false whenever context.customerTags is unset
\* and a return_reason rule whenever context.returnReason is unset, for
\* every conditionValue; every customer_tag rule is false on a context that
\* buildRoutingContext made without customerData or from customerData
\* without tags.
C12_UnsetIsFalse ==
  pc = "done" =>
    /\ (rule.conditionType = "customer_tag" /\ ~has(context, "customerTags"))
         => result = "false"
    /\ (rule.conditionType = "return_reason" /\ ~has(context, "returnReason"))
         => result = "false"
    /\ ( /\ built
         /\ rule.conditionType = "customer_tag"
         /\ (customerData = undefined \/ ~has(customerData, "tags")) )
         => result = "false"

\* A customer_tag rule whose value normalizes to the empty string has been
\* evaluated on a context built without customerData.
C12_Witness ==
  /\ pc = "done"
  /\ built
  /\ rule.conditionType = "customer_tag"
  /\ rule.conditionValue = <<" ">>
  /\ customerData = undefined
  /\ has(context, "returnReason")
  /\ result = "false"

\* C13: the built context has orderValue = orderData.totalValue, items =
\* orderData.lineItems (same elements, same order), returnReason =
\* returnData.reason and customerTags = customerData.tags; an absent reason,
\* absent customerData or absent tags leaves the field unset, not empty.
C13_ContextCopiesData ==
  built =>
    /\ DOMAIN context \subseteq {"orderValue", "returnReason", "customerTags", "items"}
    /\ context.orderValue = orderData.totalValue
    /\ context.items = orderData.lineItems
    /\ IF has(returnData, "reason")
       THEN has(context, "returnReason") /\ context.returnReason = returnData.reason
       ELSE ~has(context, "returnReason")
    /\ IF customerData # undefined /\ has(customerData, "tags")
       THEN has(context, "customerTags") /\ context.customerTags = customerData.tags
       ELSE ~has(context, "customerTags")

\* Two different line items, an empty tag list that is kept as it is, and
\* no reason.
C13_Witness ==
  /\ built
  /\ Len(orderData.lineItems) = 2
  /\ orderData.lineItems[1] # orderData.lineItems[2]
  /\ orderData.totalValue # 0
  /\ ~has(returnData, "reason")
  /\ customerData # undefined /\ has(customerData, "tags") /\ customerData.tags = <<>>
  /\ has(context, "customerTags")
  /\ ~has(context, "returnReason")

\* -------------------------------------------------- claims: the selector
matches(r, c) == evaluateCondition(r, c) = "true"

\* the active rules of rs that match c, by position
candidates(rs, c) == {i \in 1..Len(rs) : rs[i].isActive /\ matches(rs[i], c)}

\* i comes before j in ascending priority, input order deciding ties
precedes(rs, i, j) ==
  \/ rs[i].priority < rs[j].priority
  \/ rs[i].priority = rs[j].priority /\ i <= j

\* C1: the result is the destination of the first matching rule among the
\* active rules in ascending priority (input order for equal priorities),
\* and null when no active rule matches, the empty list included.
C1_FirstActiveMatch ==
  pc = "done" =>
    LET cand == candidates(rules, context)
    IN  IF cand = {} THEN result = NULL
        ELSE \E i \in cand :
                /\ \A j \in cand : precedes(rules, i, j)
                /\ result = rules[i].destination

\* Three rules given in descending priority order, the last one winning.
C1_Witness ==
  /\ pc = "done"
  /\ Len(rules) = 3
  /\ candidates(rules, context) = {1, 3}
  /\ rules[3].priority < rules[1].priority
  /\ rules[1].destination # rules[3].destination
  /\ result = rules[3].destination
  /\ result # NULL

\* C2: of several matching active rules that share the lowest matching
\* priority, the one earliest in the input list gives the result.
C2_TieKeepsInputOrder ==
  pc = "done" =>
    \A i, k \in candidates(rules, context) :
      ( /\ i < k
        /\ rules[i].priority = rules[k].priority
        /\ \A j \in candidates(rules, context) :
             /\ rules[j].priority >= rules[i].priority
             /\ rules[j].priority = rules[i].priority => i <= j )
      => result = rules[i].destination

\* Two matching active rules of equal priority with different destinations,
\* behind a rule of lower priority value that does not match.
C2_Witness ==
  /\ pc = "done"
  /\ Len(rules) = 3
  /\ candidates(rules, context) = {2, 3}
  /\ rules[1].isActive /\ rules[1].priority < rules[2].priority
  /\ rules[2].priority = rules[3].priority
  /\ rules[2].destination # rules[3].destination
  /\ rules[3].destination # NULL
  /\ result = rules[2].destination

\* C3: inactive rules never influence the result: it is the result on the
\* list with the inactive rules removed.
C3_InactiveIgnored ==
  pc = "done" =>
    result = findMatchingDestination(SelectSeq(rules, isActiveRule), context)

\* An inactive matching rule of lower priority value than every active rule
\* has been passed over for an active one.
C3_Witness ==
  /\ pc = "done"
  /\ \E i \in 1..Len(rules) :
       /\ ~rules[i].isActive
       /\ matches(rules[i], context)
       /\ rules[i].destination # NULL
       /\ rules[i].destination # result
       /\ \A j \in 1..Len(rules) :
            rules[j].isActive => rules[i].priority < rules[j].priority
  /\ result # NULL

\* C6: when the first matching active rule in priority order has no
\* destination the result is null, also when a later matching rule has one.
C6_DanglingPropagates ==
  pc = "done" =>
    \A i \in candidates(rules, context) :
      ( /\ \A j \in candidates(rules, context) : precedes(rules, i, j)
        /\ rules[i].destination = NULL )
      => result = NULL

\* A matching rule with a destination stands behind the dangling one.
C6_Witness ==
  /\ pc = "done"
  /\ result = NULL
  /\ \E i, k \in candidates(rules, context) :
       /\ \A j \in candidates(rules, context) : precedes(rules, i, j)
       /\ rules[i].destination = NULL
       /\ rules[k].destination # NULL

isKnownType(r) == r.conditionType \in ConditionType

\* C8: a rule of an unknown condition type evaluates to false whatever its
\* conditionValue and is never selected: the result is the result on the
\* list without such rules.
C8_UnknownTypeNeverMatches ==
  pc = "done" =>
    /\ \A i \in 1..Len(rules) :
         ~isKnownType(rules[i]) =>
           \A v \in Words :
             evaluateCondition([rules[i] EXCEPT !.conditionValue = v], context) = "false"
    /\ result = findMatchingDestination(SelectSeq(rules, isKnownType), context)

\* An active rule of unknown type stands first and alone in its priority,
\* and a rule behind it gives the result.
C8_Witness ==
  /\ pc = "done"
  /\ Len(rules) >= 2
  /\ ~isKnownType(rules[1]) /\ rules[1].isActive
  /\ \A j \in 2..Len(rules) : rules[1].priority < rules[j].priority
  /\ result # NULL
  /\ result # rules[1].destination

permutations(n) ==
  {p \in [1..n -> 1..n] : \A i, j \in 1..n : i # j => p[i] # p[j]}

permuted(rs, p) == [i \in 1..Len(rs) |-> rs[p[i]]]

distinctActivePriorities(rs) ==
  \A i, j \in 1..Len(rs) :
    (i # j /\ rs[i].isActive /\ rs[j].isActive) => rs[i].priority # rs[j].priority

\* two active matching rules share the lowest matching priority value
tiedAtLowest(rs, c) ==
  \E i, j \in candidates(rs, c) :
    /\ i # j
    /\ rs[i].priority = rs[j].priority
    /\ \A k \in candidates(rs, c) : rs[i].priority <= rs[k].priority

\* C27: when the active rules have pairwise distinct priority values the
\* result is the same for every permutation of the list; the order of the
\* list changes the result only when two active matching rules share the
\* lowest matching priority value.
C27_OrderMattersOnlyForTies ==
  pc = "done" =>
    \A p \in permutations(Len(rules)) :
      LET other == findMatchingDestination(permuted(rules, p), context)
      IN  /\ distinctActivePriorities(rules) => other = result
          /\ other # result => tiedAtLowest(rules, context)

\* Three active rules of three priorities, two of them matching with
\* different destinations, the one of higher priority value first.
C27_Witness ==
  /\ pc = "done"
  /\ Len(rules) = 3
  /\ distinctActivePriorities(rules)
  /\ \A i \in 1..3 : rules[i].isActive
  /\ candidates(rules, context) = {1, 3}
  /\ rules[1].priority > rules[3].priority
  /\ rules[2].priority < rules[3].priority
  /\ rules[1].destination # rules[3].destination
  /\ rules[1].destination # NULL
  /\ result = rules[3].destination

\* ------------------------------------------- claims: routing on a store
\* the destination an operation returned
returned == IF op = "routeReturnRequest" THEN result.destination ELSE result

defaultsOf(s) ==
  {returnDestination[j] : j \in {k \in 1..Len(returnDestination) :
      returnDestination[k].shop = s /\ returnDestination[k].isDefault}}

storeCallDone == pc = "done" /\ op \in {"getDestinationForReturn", "routeReturnRequest"}

\* C4: getDestinationForReturn and routeReturnRequest return the selector's
\* destination over the loaded rules when it is not null; when it is null
\* they return a destination of the shop flagged isDefault, and null only
\* if the shop has no such destination.
C4_FallbackToDefault ==
  storeCallDone =>
    LET sel == findMatchingDestination(loaded, context)
    IN  /\ sel # NULL => returned = sel
        /\ sel = NULL =>
             IF defaultsOf(shop) = {} THEN returned = NULL
             ELSE returned \in defaultsOf(shop)

\* routeReturnRequest loaded rules none of which matched and fell back to
\* the default of the shop, another shop having a default as well.
C4_Witness ==
  /\ storeCallDone
  /\ op = "routeReturnRequest"
  /\ loaded # <<>>
  /\ findMatchingDestination(loaded, context) = NULL
  /\ defaultsOf("shop_b") # {}
  /\ returned \in defaultsOf(shop)

\* C5: no destination is made up: a non-null result of the selector is the
\* destination of an active matching rule of the list it was given, and a
\* non-null destination returned by getDestinationForReturn or
\* routeReturnRequest is that of an active matching rule of the shop or a
\* destination of the shop flagged isDefault.
C5_NothingFabricated ==
  /\ (pc = "done" /\ op = "none") =>
       (result # NULL =>
          \E i \in candidates(rules, context) : rules[i].destination = result)
  /\ storeCallDone =>
       LET sel == findMatchingDestination(loaded, context)
       IN  /\ sel # NULL =>
                \E i \in candidates(loaded, context) : loaded[i].destination = sel
           /\ returned # NULL =>
                \/ \E i \in 1..Len(routingRule) :
                     /\ routingRule[i].shop = shop
                     /\ routingRule[i].isActive
                     /\ matches(routingRule[i], context)
                     /\ destinationOf(routingRule[i].destinationId) = returned
                \/ returned \in defaultsOf(shop)

\* getDestinationForReturn returned the default although the shop has
\* another destination and rules of its own that did not match.
C5_Witness ==
  /\ storeCallDone
  /\ op = "getDestinationForReturn"
  /\ loaded # <<>>
  /\ Len(returnDestination) = 3
  /\ Cardinality(defaultsOf(shop)) = 1
  /\ returned \in defaultsOf(shop)

\* the active rules of the shop that match the context, by table position
shopCandidates ==
  {i \in 1..Len(routingRule) :
     /\ routingRule[i].shop = shop
     /\ routingRule[i].isActive
     /\ matches(routingRule[i], context)}

\* C28: routeReturnRequest returns matchedRule = null exactly when no active
\* rule of the shop matches the context; a non-null matchedRule is a matching
\* active rule of the shop that no other one precedes in priority, returned
\* with its joined destination as the destination; with matchedRule = null
\* the destination is a default destination of the shop, null if it has none.
C28_MatchedRuleAndDestination ==
  (pc = "done" /\ op = "routeReturnRequest") =>
    /\ result.matchedRule = NULL <=> shopCandidates = {}
    /\ result.matchedRule # NULL =>
         /\ \E i \in shopCandidates :
              /\ result.matchedRule = withDestination(routingRule[i])
              /\ \A j \in shopCandidates :
                   routingRule[i].priority <= routingRule[j].priority
         /\ result.destination = destinationOf(result.matchedRule.destinationId)
    /\ result.matchedRule = NULL =>
         IF defaultsOf(shop) = {} THEN result.destination = NULL
         ELSE result.destination \in defaultsOf(shop)

\* Two active rules of the shop match, the one of higher priority value
\* first in the table; the other one is returned with its destination,
\* which is not the default of the shop.
C28_Witness ==
  /\ pc = "done" /\ op = "routeReturnRequest"
  /\ shopCandidates = {1, 2}
  /\ routingRule[1].priority > routingRule[2].priority
  /\ result.matchedRule = withDestination(routingRule[2])
  /\ result.destination # NULL
  /\ defaultsOf(shop) # {}
  /\ result.destination \notin defaultsOf(shop)

\* ------------------------------------------------- claims: the validator
validated == pc = "done" /\ op = "validateRoutingRules"

\* the rules and the destinations of the shop, by position in their tables
shopRules == {i \in 1..Len(routingRule) : routingRule[i].shop = shop}

shopDestinations == {j \in 1..Len(returnDestination) : returnDestination[j].shop = shop}

\* the destination the rule refers to is not in the table
dangling(i) ==
  \A j \in 1..Len(returnDestination) :
    returnDestination[j].id # routingRule[i].destinationId

\* a threshold rule whose conditionValue does not start with a number
unparsable(i) ==
  /\ routingRule[i].conditionType \in {"order_value_above", "order_value_below"}
  /\ ~parses(routingRule[i].conditionValue)

\* the priority values held by two or more active rules of the shop
sharedPriorities ==
  {p \in {routingRule[i].priority : i \in shopRules} :
     Cardinality({i \in shopRules :
                    routingRule[i].isActive /\ routingRule[i].priority = p}) >= 2}

\* how many times the issue x is in the report
timesReported(x) ==
  Cardinality({k \in 1..Len(result.issues) : result.issues[k] = x})

reportedAs(message) ==
  {k \in 1..Len(result.issues) : result.issues[k].message = message}

\* C14: valid is true exactly when the issues list is empty, and the list
\* is empty exactly when the shop has a destination, one of them is default,
\* no rule lacks its destination, no order_value_* rule has an unparsable
\* conditionValue and no priority is shared by two active rules.
C14_ValidIffNoIssue ==
  validated =>
    /\ result.valid <=> result.issues = <<>>
    /\ result.issues = <<>> <=>
         /\ shopDestinations # {}
         /\ \E j \in shopDestinations : returnDestination[j].isDefault
         /\ \A i \in shopRules : ~dangling(i) /\ ~unparsable(i)
         /\ sharedPriorities = {}

\* A shop with a default destination and three sound rules of which only
\* one active rule holds each priority is valid.
C14_Witness ==
  /\ validated
  /\ result.valid
  /\ Cardinality(shopRules) = 3
  /\ \E i, j \in shopRules : routingRule[i].isActive /\ ~routingRule[j].isActive
  /\ Len(returnDestination) = 3

\* C15: for each priority value held by two or more active rules there is
\* exactly one duplicate-priority issue, naming that value; a value shared
\* among inactive rules only, or by one active rule and inactive ones, has
\* none.
C15_OneIssuePerSharedPriority ==
  validated =>
    /\ \A p \in {routingRule[i].priority : i \in shopRules} :
         timesReported(duplicatePriorityIssue(p)) = IF p \in sharedPriorities THEN 1 ELSE 0
    /\ \A k \in reportedAs(duplicatePriorityIssue(0).message) :
         result.issues[k].priority \in sharedPriorities

\* Two active rules and an inactive one hold priority 1: one issue for it.
C15_Witness ==
  /\ validated
  /\ Cardinality({i \in shopRules :
                    routingRule[i].priority = 1 /\ routingRule[i].isActive}) = 2
  /\ \E i \in shopRules : routingRule[i].priority = 1 /\ ~routingRule[i].isActive
  /\ timesReported(duplicatePriorityIssue(1)) = 1

\* C16: every rule, active or not, whose joined destination is missing has
\* one deleted-destination issue that names it, and a rule whose
\* destination exists has none.
C16_DeletedDestinationReported ==
  validated =>
    /\ \A i \in shopRules :
         timesReported(deletedDestinationIssue(routingRule[i])) =
           Cardinality({j \in shopRules :
                          dangling(j) /\ routingRule[j].name = routingRule[i].name})
    /\ Cardinality(reportedAs(deletedDestinationIssue(NoRule @@ [name |-> ""]).message)) =
         Cardinality({j \in shopRules : dangling(j)})

\* An inactive rule without its destination is reported next to a rule of
\* another name whose destination exists.
C16_Witness ==
  /\ validated
  /\ \E i, j \in shopRules :
       /\ ~routingRule[i].isActive /\ dangling(i)
       /\ ~dangling(j) /\ routingRule[j].name # routingRule[i].name
       /\ timesReported(deletedDestinationIssue(routingRule[i])) = 1
       /\ timesReported(deletedDestinationIssue(routingRule[j])) = 0

\* C17: every rule, active or not, of type order_value_above or
\* order_value_below whose conditionValue does not parse has an
\* invalid-numeric issue naming the rule and the value; a rule of another
\* type has none, whatever its conditionValue.
C17_InvalidNumericReported ==
  validated =>
    /\ \A i \in shopRules :
         timesReported(invalidNumericIssue(routingRule[i])) =
           Cardinality({j \in shopRules :
                          /\ unparsable(j)
                          /\ routingRule[j].name = routingRule[i].name
                          /\ routingRule[j].conditionValue = routingRule[i].conditionValue})
    /\ Cardinality(reportedAs(invalidNumericIssue(NoRule @@ [name |-> ""]).message)) =
         Cardinality({j \in shopRules : unparsable(j)})

\* An inactive threshold rule with a bad value is reported, a product_type
\* rule with the same value is not, nor is a threshold rule whose value
\* starts with a number.
C17_Witness ==
  /\ validated
  /\ \E i, j, k \in shopRules :
       /\ ~routingRule[i].isActive /\ unparsable(i)
       /\ routingRule[j].conditionType = "product_type"
       /\ routingRule[j].conditionValue = routingRule[i].conditionValue
       /\ routingRule[k].conditionType = "order_value_above" /\ ~unparsable(k)
       /\ timesReported(invalidNumericIssue(routingRule[i])) = 1
       /\ timesReported(invalidNumericIssue(routingRule[j])) = 0
       /\ timesReported(invalidNumericIssue(routingRule[k])) = 0

\* the rule of the evaluator as a row the validator loads
loadedRow(r) == [name |-> "rule a", shop |-> "shop_a"] @@ r

flagged(r) ==
  \E k \in 1..Len(validation(<<loadedRow(r)>>, <<DestA>>).issues) :
    validation(<<loadedRow(r)>>, <<DestA>>).issues[k] = invalidNumericIssue(loadedRow(r))

\* C18: the evaluator and the validator agree on malformed thresholds: the
\* validator reports the invalid-numeric issue for an order_value_above or
\* order_value_below rule exactly when evaluateCondition finds its value
\* unparsable; a flagged rule is false for every context, and a rule that
\* is not flagged is compared with the number parsed from its value.
C18_EvaluatorAgreesWithValidator ==
  (pc = "done" /\ rule.conditionType \in {"order_value_above", "order_value_below"}) =>
    LET threshold == parseFloat(rule.conditionValue)
    IN  /\ flagged(rule) <=> isNaN(threshold)
        /\ flagged(rule) =>
             \A ov \in orderValuesFor(rule.conditionValue) \cup {context.orderValue} :
               evaluateCondition(rule, [context EXCEPT !.orderValue = ov]) = "false"
        /\ ~flagged(rule) =>
             result = IF rule.conditionType = "order_value_above"
                      THEN bool(context.orderValue > threshold.value)
                      ELSE bool(context.orderValue < threshold.value)

\* A value that only starts with a number is not flagged and has matched an
\* order value above it.
C18_Witness ==
  /\ pc = "done"
  /\ rule.conditionType = "order_value_above"
  /\ rule.conditionValue = <<" ", "1", "x">>
  /\ ~flagged(rule)
  /\ context.orderValue = Scale + 1
  /\ result = "true"

\* C19: when the shop has no destination the issues contain 'No return
\* destinations configured' and valid is false, whatever the rules are.
C19_NoDestinationsReported ==
  (validated /\ shopDestinations = {}) =>
    /\ timesReported(NoDestinationsIssue) = 1
    /\ ~result.valid

\* The shop has rules and no destination while another shop has one.
C19_Witness ==
  /\ validated
  /\ shopDestinations = {}
  /\ returnDestination # <<>>
  /\ shopRules # {}
  /\ ~result.valid

\* C20: the missing-default issue is reported exactly when the shop has a
\* destination and none of its destinations is default: not when one is
\* default, and not next to the no-destinations issue.
C20_MissingDefaultReported ==
  validated =>
    /\ timesReported(NoDefaultIssue) =
         IF /\ shopDestinations # {}
            /\ \A j \in shopDestinations : ~returnDestination[j].isDefault
         THEN 1 ELSE 0
    /\ ~(timesReported(NoDefaultIssue) > 0 /\ timesReported(NoDestinationsIssue) > 0)

\* Two destinations of the shop, neither default, another shop's default.
C20_Witness ==
  /\ validated
  /\ Cardinality(shopDestinations) = 2
  /\ \E j \in 1..Len(returnDestination) :
       returnDestination[j].shop # shop /\ returnDestination[j].isDefault
  /\ timesReported(NoDefaultIssue) = 1

\* what getDestinationForReturn can return on the store as it is
getDestinationForReturnResults ==
  UNION {IF findMatchingDestination(l, context) # NULL
         THEN {findMatchingDestination(l, context)}
         ELSE findFirstDefault(shop) : l \in findManyActiveRules(shop)}

\* C24: on the same store and context the destination routeReturnRequest
\* returns equals what getDestinationForReturn returns, also when several
\* active rules share a priority.
C24_SameDestination ==
  (pc = "done" /\ op = "routeReturnRequest") =>
    \A d \in getDestinationForReturnResults : result.destination = d

\* the validator finds the store as it is valid
validSnapshot ==
  \A l \in findManyRules(shop) :
    \A d \in findManyDestinations(shop) : validation(l, d).valid

\* C26: when the validator returns valid = true for the rules and
\* destinations of a shop, getDestinationForReturn and routeReturnRequest
\* return a destination on that store for every context.
C26_ValidRoutesSomewhere ==
  (storeCallDone /\ validSnapshot) => returned # NULL

\* On a valid store with rules none of which matched, routeReturnRequest
\* returned the default destination.
C26_Witness ==
  /\ storeCallDone
  /\ validSnapshot
  /\ op = "routeReturnRequest"
  /\ Len(loaded) = 2
  /\ result.matchedRule = NULL
  /\ returned \in defaultsOf(shop)

\* ------------------------------------------------ claims: frame effects
\* C22: findMatchingDestination, evaluateCondition and buildRoutingContext
\* do not modify their arguments: after a call the rules list holds the
\* same elements in the same order, and the rule, the context and the data
\* the context was built from are as before.
C22_ArgumentsUnchanged ==
  [][ /\ rules' = rules
      /\ rule' = rule
      /\ buildArgs' = buildArgs
      /\ pc # "build" => context' = context ]_vars

\* The selector returned from a list that is not in priority order and has
\* an inactive rule in it.
C22_Witness ==
  /\ pc = "done"
  /\ Len(rules) = 3
  /\ rules[1].priority > rules[3].priority
  /\ ~rules[2].isActive
  /\ rules[1].isActive /\ rules[3].isActive
  /\ result = rules[3].destination
  /\ result # NULL

\* C23: getDestinationForReturn, routeReturnRequest and validateRoutingRules
\* only read the store: routing rules, destinations and return requests
\* are after each step as they were before it; routeReturnRequest does not
\* record its decision on the return request it was given.
C23_StoreOnlyRead ==
  [][ /\ routingRule' = routingRule
      /\ returnDestination' = returnDestination
      /\ returnRequest' = returnRequest ]_vars

\* routeReturnRequest has matched a rule for a request of the shop, which
\* is pending as before.
C23_Witness ==
  /\ pc = "done"
  /\ op = "routeReturnRequest"
  /\ result.matchedRule # NULL
  /\ \E i \in 1..Len(returnRequest) :
       /\ returnRequest[i].id = returnRequestId
       /\ returnRequest[i].shop = shop
       /\ returnRequest[i].status = "pending"

\* ------------------------------------------- claims: concurrent requests
\* C21: at most one destination of each shop has isDefault = true after
\* any createReturnDestination calls, also when the clear step and the
\* insert step of concurrent calls interleave.
C21_AtMostOneDefault ==
  \A s \in Shops : Cardinality(defaultsOf(s)) <= 1

\* C25: getDestinationForReturn, started on a shop that has a default
\* destination, returns a destination under every interleaving with
\* createReturnDestination calls, destinations being added only.
C25_DefaultNeverMissed ==
  (op = "getDestinationForReturn" /\ pc = "done") => result # NULL

====
